---- MODULE Spec2Model ----
\* Driver for the Microchip 25x SPI EEPROM family: the Eeprom25x driver
\* (src/src/eeprom25x.rs, and its older copy in src/src/lib.rs) and the
\* embedded-storage layer on top of it (src/src/storage.rs).
\*
\* The driver talks to four embedded-hal objects: three output pins (cs, wp,
\* hold) and one SPI channel.  Every call on one of them is one step of the
\* model; each call may fail, and the `?` of the source then returns the
\* error at once.  A driver function is an operator that yields the sequence
\* of steps its body performs; steps whose effect depends on a value read at
\* run time (the identity check, the busy checks, the write loop) are control
\* items that the step relation expands when they are reached.
\*
\* All u32 values of the model are below 2^31 (offsets and addresses are at
\* most a little above 2^24), so `offset as usize + bytes.len()` is the
\* mathematical sum on every usize of 32 bits or more.
EXTENDS Integers, Sequences, FiniteSets, TLC

VARIABLES
    build,      \* the cfg features the crate is compiled with (never changes)
    device_id,  \* what the device answers in the last two places of an identity frame
    cs, hold, wp,   \* level last driven on each output pin
    handle,     \* TRUE once new() has returned Ok(ret)
    call,       \* the public operation in progress (or the last one), its arguments
                \* and the pin levels it was called with
    todo,       \* the steps the operation in progress has still to perform
    l_offset,   \* Storage::write: `mut offset`
    l_bytes,    \* Storage::write: `mut bytes` (the part of the buffer not yet written)
    l_buf,      \* the frame buffer `buf` after the last spi.transfer
    l_id,       \* new: `id`
    l_status,   \* `status.value` of the local Status
    l_protection,   \* set_array_write_protection: `status.value` of its own Status
    log,        \* the embedded-hal calls made by the operation, in order
    result      \* "none" while the operation runs, then Ok or the error returned

vars == <<build, device_id, cs, hold, wp, handle, call, todo, l_offset, l_bytes, l_buf,
          l_id, l_status, l_protection, log, result>>

----------------------------------------------------------------------------
\* Bounds of the model.

\* most "busy" answers the device gives in one busy-wait
MaxPolls == 1
\* every buffer length up to MaxLen is written and read
MaxLen == 8

----------------------------------------------------------------------------
\* register.rs

Read == 3
Write == 2
WriteEnable == 6
WriteDisable == 4
ReadStatus == 10
WriteStatus == 8
PageErase == 66
SectorErase == 216
ChipErase == 199
ReleasePowerDown == 171
DeepSleepPowerMode == 185

Erase == {PageErase, SectorErase, ChipErase}

\* the manufacturer code new() compares the identity byte with
ManufacturerId == 41

\* storage.rs: the values of the density_* and page_size_* features
CAPACITY == {1024 * 8, 1024 * 16, 1024 * 32, 1024 * 64, 1024 * 128,
             1024 * 256, 1024 * 512, 1024 * 1024}
PAGE_SIZE == {16, 32, 64, 128, 256}

----------------------------------------------------------------------------
\* bit_field::BitField as the sources use it.  A range a..b covers the bits
\* a, ..., b-1; set_bits asserts that the value fits into the range.

Pow2(n) == 2 ^ n

Panic == -1

get_bit(x, i) == (x \div Pow2(i)) % 2 = 1

set_bit(x, i, enabled) ==
    (x \div Pow2(i + 1)) * Pow2(i + 1) + (IF enabled THEN Pow2(i) ELSE 0) + (x % Pow2(i))

get_bits(x, start, end) == (x % Pow2(end)) \div Pow2(start)

\* values are below 2^31, so nothing lies above bit 30
set_bits(x, start, end, value) ==
    IF value >= Pow2(end - start) THEN Panic
    ELSE (IF end >= 31 THEN 0 ELSE (x \div Pow2(end)) * Pow2(end))
         + value * Pow2(start) + (x % Pow2(start))

\* status.rs: enum WriteProtection
None == 0
Quarter == 1
Half == 2
All == 3

WriteProtection == {None, Quarter, Half, All}

write_protection_level(value) ==
    LET val == get_bits(value, 2, 3)
    IN IF val = 0 THEN None
       ELSE IF val = 1 THEN Quarter
       ELSE IF val = 2 THEN Half
       ELSE IF val = 3 THEN All
       ELSE None

set_write_protection_level(value, protection) == set_bits(value, 2, 3, protection)

to_be_bytes(x) ==
    << x \div Pow2(24), (x \div Pow2(16)) % 256, (x \div 256) % 256, x % 256 >>

min(a, b) == IF a < b THEN a ELSE b

----------------------------------------------------------------------------
\* Steps.  A step is a record; "pin", "spi.transfer" and "spi.write" are
\* embedded-hal calls, the others are the control flow of the sources.

Item(k, p, n, tx) == [k |-> k, p |-> p, n |-> n, tx |-> tx]

\* <pin>.set_high() / <pin>.set_low(), mapped to PinError
Pin(p, lvl) == Item("pin", p, IF lvl = "high" THEN 1 ELSE 0, <<>>)
\* spi.transfer(bytes), mapped to SpiError
SpiTransfer(tx) == Item("spi.transfer", "spi", 0, tx)
\* spi.write(bytes), mapped to SpiError
SpiWrite(tx) == Item("spi.write", "spi", 0, tx)
\* a local variable takes the byte buf[n] (the sources count from 0)
Let(p, n) == Item("let", p, n, <<>>)
\* any other control step
Ctl(p, n) == Item("ctl", p, n, <<>>)
\* return of the public operation
Ret(p) == Item("ret", p, 0, <<>>)

Zeros(n) == [i \in 1..n |-> 0]

sleep_capable == build.chip \in {"25lc512", "25lc1024"}

----------------------------------------------------------------------------
\* eeprom25x.rs

transfer(bytes) ==
    << Pin("cs", "low"), SpiTransfer(bytes), Pin("cs", "high") >>

status_read ==
    << Pin("cs", "low"), SpiTransfer(<<ReadStatus, 0>>), Pin("cs", "high"),
       Let("status", 1) >>

status == transfer(<<ReadStatus, 0>>) \o << Let("status", 1) >>

write_enable == transfer(<<WriteEnable>>)

write_disable == transfer(<<WriteDisable>>)

deep_sleep == transfer(<<DeepSleepPowerMode>>)

hold_transfer(enabled) ==
    IF enabled THEN << Pin("hold", "high") >> ELSE << Pin("hold", "low") >>

release_from_deep_sleep_and_get_manufacturer_id ==
    IF build.chip = "25lc1024"
    THEN transfer(<<ReleasePowerDown, 0, 0, 0, 0>>) \o << Let("id", 4) >>
    ELSE transfer(<<ReleasePowerDown, 0, 0, 0>>) \o << Let("id", 3) >>

\* error_on_writing that returns the status whatever the busy bit
error_on_writing_unchecked == status

error_on_writing == status \o << Ctl("err_if_write_in_progress", 0) >>

\* enable_write_to_status and disable_write_to_status send the status byte
\* they have just read, with bit 7 changed
enable_write_to_status ==
    << Pin("wp", "high") >> \o status
    \o << Ctl("set_write_protection_enabled", 0), Ctl("transfer_status", 0) >>

disable_write_to_status ==
    << Pin("wp", "high") >> \o status
    \o << Ctl("set_write_protection_enabled", 1), Ctl("transfer_status", 0),
          Pin("wp", "low") >>

set_array_write_protection(level) ==
    transfer(<<ReadStatus, 0>>) \o << Let("protection", 1) >>
    \o << Ctl("set_write_protection_level", level) >>
    \o write_enable
    \o enable_write_to_status
    \o write_enable
    \o << Ctl("transfer_protection", 0) >>
    \o disable_write_to_status
    \o << Ret("Ok") >>

\* e25x_read_from_address_command that puts the instruction into bits 16..23
e25x_read_from_address_command_low(address) == set_bits(address, 16, 24, Read)

e25x_read_from_address_command(address) == set_bits(address, 24, 31, Read)

e25x_write_from_address_command(address) == set_bits(address, 24, 31, Write)

read(address, bytes) ==
    << Pin("cs", "low"),
       SpiWrite(to_be_bytes(e25x_read_from_address_command(address))),
       SpiTransfer(bytes),
       Pin("cs", "high") >>

write(address, bytes) ==
    << Pin("cs", "low"),
       SpiWrite(to_be_bytes(e25x_write_from_address_command(address))),
       SpiWrite(bytes),
       Pin("cs", "high") >>

erase(address, erase_kind) ==
    error_on_writing \o write_enable
    \o (LET a == set_bits(address, 24, 31, erase_kind)
        IN IF a = Panic THEN << Ctl("panic", 0) >>
           ELSE transfer(to_be_bytes(a)))
    \o << Ret("Ok") >>

\* new that goes on whatever the identity byte
new_unchecked ==
    << Pin("cs", "high"), Pin("hold", "high"), Pin("wp", "high") >>
    \o release_from_deep_sleep_and_get_manufacturer_id
    \o (IF sleep_capable THEN deep_sleep ELSE <<>>)
    \o hold_transfer(FALSE)
    \o << Ret("Ok") >>

new ==
    << Pin("cs", "high"), Pin("hold", "high"), Pin("wp", "high") >>
    \o release_from_deep_sleep_and_get_manufacturer_id
    \o << Ctl("err_if_wrong_id", 0) >>
    \o (IF sleep_capable THEN deep_sleep ELSE <<>>)
    \o hold_transfer(FALSE)
    \o << Ret("Ok") >>

----------------------------------------------------------------------------
\* lib.rs: the older copy of the driver.  Its functions are those of
\* eeprom25x.rs except new, the identity transaction and deep_sleep (which
\* it always has); it has no read, write or status_read.

lib_release_from_deep_sleep_and_get_manufacturer_id ==
    transfer(<<ReleasePowerDown, 0, 0, 0, 0>>) \o << Let("id", 3) >>

lib_new ==
    << Pin("cs", "high") >>
    \o (IF build.hold_line THEN << Pin("hold", "low") >> ELSE <<>>)
    \o << Pin("wp", "high") >>
    \o lib_release_from_deep_sleep_and_get_manufacturer_id
    \o << Ctl("err_if_wrong_id", 0) >>
    \o write_enable
    \o enable_write_to_status
    \o write_enable
    \o disable_write_to_status
    \o deep_sleep
    \o hold_transfer(FALSE)
    \o << Ret("Ok") >>

----------------------------------------------------------------------------
\* storage.rs

capacity == build.CAPACITY

\* Storage_read that does not put the device back to sleep
Storage_read_awake(offset, bytes) ==
    hold_transfer(TRUE)
    \o (IF sleep_capable
        THEN release_from_deep_sleep_and_get_manufacturer_id ELSE <<>>)
    \o read(offset, bytes)
    \o hold_transfer(FALSE)
    \o << Ret("Ok") >>

Storage_read(offset, bytes) ==
    hold_transfer(TRUE)
    \o (IF sleep_capable
        THEN release_from_deep_sleep_and_get_manufacturer_id ELSE <<>>)
    \o read(offset, bytes)
    \o (IF sleep_capable THEN deep_sleep ELSE <<>>)
    \o hold_transfer(FALSE)
    \o << Ret("Ok") >>

\* write_chunk with the chunk cut at the page size, not at the page boundary
write_chunk_page_size(offset, bytes) ==
    LET page_size == build.PAGE_SIZE
        chunk_size == min(Len(bytes), page_size)
    IN  write_enable
        \o write(offset, SubSeq(bytes, 1, chunk_size))
        \o << Ctl("advance", chunk_size), Ctl("while_busy", 0) >>
        \o write_disable
        \o << Ctl("while_bytes", 0) >>

\* write_chunk that writes a single byte per write-enable cycle
write_chunk_bytewise(offset, bytes) ==
    write_enable
    \o write(offset, SubSeq(bytes, 1, 1))
    \o << Ctl("advance", 1), Ctl("while_busy", 0) >>
    \o write_disable
    \o << Ctl("while_bytes", 0) >>

\* one pass of `while !bytes.is_empty()`, for the current offset and bytes
write_chunk(offset, bytes) ==
    LET page_size == build.PAGE_SIZE
        this_page_offset == offset % page_size
        this_page_remaining == page_size - this_page_offset
        chunk_size == min(Len(bytes), this_page_remaining)
    IN  write_enable
        \o write(offset, SubSeq(bytes, 1, chunk_size))
        \o << Ctl("advance", chunk_size), Ctl("while_busy", 0) >>
        \o write_disable
        \o << Ctl("while_bytes", 0) >>

\* Storage_write that also refuses a buffer ending at the capacity
Storage_write_ge(offset, bytes) ==
    IF offset + Len(bytes) >= capacity
    THEN << Ret("TooMuchData") >>
    ELSE hold_transfer(TRUE)
         \o (IF sleep_capable
             THEN release_from_deep_sleep_and_get_manufacturer_id ELSE <<>>)
         \o << Ctl("while_bytes", 0) >>
         \o (IF sleep_capable THEN deep_sleep ELSE <<>>)
         \o hold_transfer(FALSE)
         \o << Ret("Ok") >>

Storage_write(offset, bytes) ==
    IF offset + Len(bytes) > capacity
    THEN << Ret("TooMuchData") >>
    ELSE hold_transfer(TRUE)
         \o (IF sleep_capable
             THEN release_from_deep_sleep_and_get_manufacturer_id ELSE <<>>)
         \o << Ctl("while_bytes", 0) >>
         \o (IF sleep_capable THEN deep_sleep ELSE <<>>)
         \o hold_transfer(FALSE)
         \o << Ret("Ok") >>

----------------------------------------------------------------------------
\* What the device answers.  The sources only read the status byte of a
\* status frame, the last bytes of an identity frame and the data of a read.

\* status bytes the device may answer (bit 0 is the busy bit, bit 7 WPEN)
StatusBytes == {0, 143}
\* bytes a device may answer in the last two places of an identity frame
\* (the place before the last is a dummy byte of a 4-byte frame)
IdBytes == {ManufacturerId, 0}
\* the byte at place i of the data the device holds at a read
Data(n) == [i \in 1..n |-> (i * 7) % 251]

Entry(dev, fn, ok, tx, rx) == [dev |-> dev, fn |-> fn, ok |-> ok, tx |-> tx, rx |-> rx]

\* spi.transfer directly after the header spi.write of read() receives data
AfterHeader == log # <<>> /\ log[Len(log)].dev = "spi" /\ log[Len(log)].fn = "write"

\* the busy answers given since the last answer that was not busy
BusyRun(l) ==
    LET polls == { i \in 1..Len(l) :
                     /\ l[i].dev = "spi" /\ l[i].fn = "transfer" /\ l[i].ok
                     /\ l[i].tx = <<ReadStatus, 0>> }
        clear == { i \in polls : ~get_bit(l[i].rx[2], 0) }
    IN Cardinality({ i \in polls : \A j \in clear : j < i })

Received(tx) ==
    IF AfterHeader THEN { Data(Len(tx)) }
    ELSE IF tx = <<ReadStatus, 0>>
    THEN { <<0, s>> : s \in { b \in StatusBytes : get_bit(b, 0) => BusyRun(log) < MaxPolls } }
    ELSE IF tx[1] = ReleasePowerDown /\ Len(tx) >= 4
    THEN { Zeros(Len(tx) - 2) \o device_id }
    ELSE { Zeros(Len(tx)) }

----------------------------------------------------------------------------
\* The state before new() is called.

\* The density and page size of the devices of the family; each is built
\* with and without the deep-sleep features.  lib.rs has no storage layer.
Variants ==
    { <<1024 * 8, 16>>, <<1024 * 16, 16>>, <<1024 * 32, 32>>, <<1024 * 64, 32>>,
      <<1024 * 128, 64>>, <<1024 * 256, 64>>, <<1024 * 512, 128>>,
      <<1024 * 1024, 256>> }

Builds ==
    { [crate |-> "eeprom25x", chip |-> c, hold_line |-> FALSE,
       CAPACITY |-> v[1], PAGE_SIZE |-> v[2]] :
         c \in {"25lc", "25lc512", "25lc1024"},
         v \in { w \in Variants : w[1] \in CAPACITY /\ w[2] \in PAGE_SIZE } }
    \cup
    { [crate |-> "lib", chip |-> "25lc1024", hold_line |-> h,
       CAPACITY |-> 1024 * 1024, PAGE_SIZE |-> 256] : h \in BOOLEAN }

NoCall == [name |-> "none", offset |-> 0, bytes |-> <<>>, kind |-> 0,
           pins |-> <<"unset", "unset", "unset">>]

Init ==
    /\ build \in Builds
    /\ device_id \in { <<a, b>> : a \in IF build.chip = "25lc1024" THEN IdBytes ELSE {0},
                                  b \in IdBytes }
    /\ cs = "unset" /\ hold = "unset" /\ wp = "unset"
    /\ handle = FALSE
    /\ call = NoCall
    /\ todo = <<>>
    /\ l_offset = 0 /\ l_bytes = <<>> /\ l_buf = <<>> /\ l_id = 0 /\ l_status = 0
    /\ l_protection = 0
    /\ log = <<>>
    /\ result = "none"

----------------------------------------------------------------------------
\* Calls of the public operations.

Idle == todo = <<>>

Start(name, offset, bytes, kind, steps) ==
    /\ Idle /\ result = "none"
    /\ call' = [name |-> name, offset |-> offset, bytes |-> bytes, kind |-> kind,
                pins |-> <<cs, hold, wp>>]
    /\ todo' = steps
    /\ l_offset' = offset /\ l_bytes' = bytes
    /\ l_buf' = <<>> /\ l_id' = 0 /\ l_status' = 0
    /\ l_protection' = 0
    /\ log' = <<>>
    /\ result' = "none"
    /\ UNCHANGED <<build, device_id, cs, hold, wp, handle>>

Call_new ==
    /\ ~handle
    /\ Start("new", 0, <<>>, 0, IF build.crate = "lib" THEN lib_new ELSE new)

\* the buffer a caller passes to write: a pattern of the given length
Buf(n) == [i \in 1..n |-> (i * 5 + 1) % 251]

\* buffer lengths: the short ones, 20, a whole page, and a page and a tail
Lens == (0..MaxLen) \cup {20, build.PAGE_SIZE, build.PAGE_SIZE + MaxLen}

\* offsets: page-aligned, 6 bytes before a page boundary, around the capacity
Offsets ==
    {0, build.PAGE_SIZE - 6, 2 * build.PAGE_SIZE,
     capacity - 1, capacity, capacity + 1}

Call_Storage_write ==
    /\ handle /\ build.crate = "eeprom25x"
    /\ \E offset \in Offsets, n \in Lens :
          Start("Storage.write", offset, Buf(n), 0, Storage_write(offset, Buf(n)))

Call_Storage_read ==
    /\ handle /\ build.crate = "eeprom25x"
    /\ \E offset \in Offsets, n \in {0, 1, MaxLen} :
          Start("Storage.read", offset, Zeros(n), 0, Storage_read(offset, Zeros(n)))

Addresses == {0, 1, 74565, Pow2(24) - 1}

Call_erase ==
    /\ handle
    /\ \E address \in Addresses, erase_kind \in Erase :
          Start("erase", address, <<>>, erase_kind, erase(address, erase_kind))

\* the driver's own read and write, of one or two bytes
Call_read ==
    /\ handle /\ build.crate = "eeprom25x"
    /\ \E address \in Addresses, n \in {1, 2} :
          Start("read", address, Zeros(n), 0, read(address, Zeros(n)) \o << Ret("Ok") >>)

Call_write ==
    /\ handle /\ build.crate = "eeprom25x"
    /\ \E address \in Addresses, n \in {1, 2} :
          Start("write", address, Buf(n), 0, write(address, Buf(n)) \o << Ret("Ok") >>)

Call_set_array_write_protection ==
    /\ handle
    /\ \E level \in WriteProtection :
          Start("set_array_write_protection", 0, <<>>, level,
                set_array_write_protection(level))

----------------------------------------------------------------------------
\* Steps of the operation in progress.

Step == todo[1]
Rest == Tail(todo)

Locals == <<l_offset, l_bytes, l_buf, l_id, l_status, l_protection>>

Level(n) == IF n = 1 THEN "high" ELSE "low"
SetFn(n) == IF n = 1 THEN "set_high" ELSE "set_low"

\* Fail that drops the error and goes on with the next statement
Fail_ignored(e, err) ==
    /\ log' = Append(log, e)
    /\ todo' = Tail(todo)
    /\ l_buf' = IF e.fn = "transfer" THEN e.tx ELSE l_buf
    /\ UNCHANGED <<build, device_id, cs, hold, wp, handle, call, l_offset, l_bytes,
                   l_id, l_status, l_protection, result>>

\* the error of a failed call is returned by `?`: nothing more is done
Fail(e, err) ==
    /\ log' = Append(log, e)
    /\ result' = err
    /\ todo' = <<>>
    /\ UNCHANGED <<build, device_id, cs, hold, wp, handle, call, Locals>>

PinOk ==
    /\ ~Idle /\ Step.k = "pin"
    /\ cs' = IF Step.p = "cs" THEN Level(Step.n) ELSE cs
    /\ hold' = IF Step.p = "hold" THEN Level(Step.n) ELSE hold
    /\ wp' = IF Step.p = "wp" THEN Level(Step.n) ELSE wp
    /\ log' = Append(log, Entry(Step.p, SetFn(Step.n), TRUE, <<>>, <<>>))
    /\ todo' = Rest
    /\ UNCHANGED <<build, device_id, handle, call, Locals, result>>

\* a pin call that fails leaves the level of the pin as it was
PinErr ==
    /\ ~Idle /\ Step.k = "pin"
    /\ Fail(Entry(Step.p, SetFn(Step.n), FALSE, <<>>, <<>>), "PinError")

SpiTransferOk ==
    /\ ~Idle /\ Step.k = "spi.transfer"
    /\ \E rx \in Received(Step.tx) :
          /\ l_buf' = rx
          /\ log' = Append(log, Entry("spi", "transfer", TRUE, Step.tx, rx))
    /\ todo' = Rest
    /\ UNCHANGED <<build, device_id, cs, hold, wp, handle, call, l_offset, l_bytes, l_id,
                   l_status, l_protection, result>>

SpiWriteOk ==
    /\ ~Idle /\ Step.k = "spi.write"
    /\ log' = Append(log, Entry("spi", "write", TRUE, Step.tx, <<>>))
    /\ todo' = Rest
    /\ UNCHANGED <<build, device_id, cs, hold, wp, handle, call, Locals, result>>

SpiErr ==
    /\ ~Idle /\ Step.k \in {"spi.transfer", "spi.write"}
    /\ Fail(Entry("spi", IF Step.k = "spi.transfer" THEN "transfer" ELSE "write",
                  FALSE, Step.tx, <<>>), "SpiError")

\* Ok(buf[n]) of the identity transaction, Status { value: buf[1] }
LetStep ==
    /\ ~Idle /\ Step.k = "let"
    /\ l_id' = IF Step.p = "id" THEN l_buf[Step.n + 1] ELSE l_id
    /\ l_status' = IF Step.p = "status" THEN l_buf[Step.n + 1] ELSE l_status
    /\ l_protection' = IF Step.p = "protection" THEN l_buf[Step.n + 1] ELSE l_protection
    /\ todo' = Rest
    /\ UNCHANGED <<build, device_id, cs, hold, wp, handle, call, l_offset, l_bytes, l_buf,
                   log, result>>

Goto(steps) ==
    /\ todo' = steps
    /\ UNCHANGED <<build, device_id, cs, hold, wp, handle, call, Locals, log, result>>

Return(r) ==
    /\ result' = r
    /\ todo' = <<>>
    /\ handle' = (handle \/ (call.name = "new" /\ r = "Ok"))
    /\ UNCHANGED <<build, device_id, cs, hold, wp, call, Locals, log>>

\* new: if id != 0x29 { Err(Error::WrongId) }
ErrIfWrongId ==
    /\ ~Idle /\ Step = Ctl("err_if_wrong_id", 0)
    /\ IF l_id # ManufacturerId THEN Return("WrongId") ELSE Goto(Rest)

\* error_on_writing: if status.write_in_progress() { Err(Error::BusyWriting) }
ErrIfWriteInProgress ==
    /\ ~Idle /\ Step = Ctl("err_if_write_in_progress", 0)
    /\ IF get_bit(l_status, 0) THEN Return("BusyWriting") ELSE Goto(Rest)

\* status.set_write_protection_enabled(enabled)
SetWriteProtectionEnabled ==
    /\ ~Idle /\ Step.k = "ctl" /\ Step.p = "set_write_protection_enabled"
    /\ l_status' = set_bit(l_status, 7, Step.n = 1)
    /\ todo' = Rest
    /\ UNCHANGED <<build, device_id, cs, hold, wp, handle, call, l_offset, l_bytes, l_buf,
                   l_id, l_protection, log, result>>

\* set_array_write_protection: status.set_write_protection_level(level)
SetWriteProtectionLevel ==
    /\ ~Idle /\ Step.k = "ctl" /\ Step.p = "set_write_protection_level"
    /\ LET value == set_write_protection_level(l_protection, Step.n)
       IN IF value = Panic
          THEN /\ l_protection' = l_protection
               /\ todo' = << Ctl("panic", 0) >>
          ELSE /\ l_protection' = value
               /\ todo' = Rest
    /\ UNCHANGED <<build, device_id, cs, hold, wp, handle, call, l_offset, l_bytes, l_buf,
                   l_id, l_status, log, result>>

\* set_array_write_protection: the WriteStatus frame of its own status
TransferProtection ==
    /\ ~Idle /\ Step = Ctl("transfer_protection", 0)
    /\ Goto(transfer(<<WriteStatus, l_protection>>) \o Rest)

\* let mut buf = [Instruction::WriteStatus as u8, status.value]; self.transfer(&mut buf)
TransferStatus ==
    /\ ~Idle /\ Step = Ctl("transfer_status", 0)
    /\ Goto(transfer(<<WriteStatus, l_status>>) \o Rest)

\* Storage::write: while !bytes.is_empty() { ... }
WhileBytes ==
    /\ ~Idle /\ Step = Ctl("while_bytes", 0)
    /\ IF l_bytes # <<>> THEN Goto(write_chunk(l_offset, l_bytes) \o Rest)
       ELSE Goto(Rest)

\* Advance that moves the buffer cursor and leaves the offset
Advance_bytes_only ==
    /\ ~Idle /\ Step.k = "ctl" /\ Step.p = "advance"
    /\ l_bytes' = SubSeq(l_bytes, Step.n + 1, Len(l_bytes))
    /\ todo' = Rest
    /\ UNCHANGED <<build, device_id, cs, hold, wp, handle, call, l_offset, l_buf,
                   l_id, l_status, l_protection, log, result>>

\* Advance that moves the offset and leaves the buffer cursor
Advance_offset_only ==
    /\ ~Idle /\ Step.k = "ctl" /\ Step.p = "advance"
    /\ l_offset' = l_offset + Step.n
    /\ todo' = Rest
    /\ UNCHANGED <<build, device_id, cs, hold, wp, handle, call, l_bytes, l_buf, l_id,
                   l_status, l_protection, log, result>>

\* Storage::write: offset += chunk_size as u32; bytes = &bytes[chunk_size..]
Advance ==
    /\ ~Idle /\ Step.k = "ctl" /\ Step.p = "advance"
    /\ l_offset' = l_offset + Step.n
    /\ l_bytes' = SubSeq(l_bytes, Step.n + 1, Len(l_bytes))
    /\ todo' = Rest
    /\ UNCHANGED <<build, device_id, cs, hold, wp, handle, call, l_buf, l_id, l_status,
                   l_protection, log, result>>

\* Storage::write: while self.eeprom.status_read()?.get_bit(0) {}
WhileBusy ==
    /\ ~Idle /\ Step = Ctl("while_busy", 0)
    /\ Goto(status_read \o << Ctl("again_if_busy", 0) >> \o Rest)

\* AgainIfBusy that leaves the busy-wait after its first status read
AgainIfBusy_once ==
    /\ ~Idle /\ Step = Ctl("again_if_busy", 0)
    /\ Goto(Rest)

AgainIfBusy ==
    /\ ~Idle /\ Step = Ctl("again_if_busy", 0)
    /\ IF get_bit(l_status, 0) THEN Goto(<< Ctl("while_busy", 0) >> \o Rest)
       ELSE Goto(Rest)

\* a failed assertion of bit_field unwinds out of the operation
PanicStep ==
    /\ ~Idle /\ Step = Ctl("panic", 0)
    /\ Return("panic")

ReturnStep ==
    /\ ~Idle /\ Step.k = "ret"
    /\ Return(Step.p)

\* The caller has the result and goes on to its next operation.  A caller
\* that got a pin or SPI error, or a panic, gives up.
Resume ==
    /\ Idle /\ result \in {"Ok", "BusyWriting", "TooMuchData"}
    /\ call' = NoCall
    /\ l_offset' = 0 /\ l_bytes' = <<>> /\ l_buf' = <<>> /\ l_id' = 0 /\ l_status' = 0
    /\ l_protection' = 0
    /\ log' = <<>>
    /\ result' = "none"
    /\ UNCHANGED <<build, device_id, cs, hold, wp, handle, todo>>

Next ==
    \/ Call_new
    \/ Call_Storage_write
    \/ Call_Storage_read
    \/ Call_erase
    \/ Call_read
    \/ Call_write
    \/ Call_set_array_write_protection
    \/ PinOk
    \/ PinErr
    \/ SpiTransferOk
    \/ SpiWriteOk
    \/ SpiErr
    \/ LetStep
    \/ ErrIfWrongId
    \/ ErrIfWriteInProgress
    \/ SetWriteProtectionEnabled
    \/ SetWriteProtectionLevel
    \/ TransferProtection
    \/ TransferStatus
    \/ WhileBytes
    \/ Advance
    \/ WhileBusy
    \/ AgainIfBusy
    \/ PanicStep
    \/ ReturnStep
    \/ Resume

Spec == Init /\ [][Next]_vars

\* The driver is synchronous: an operation that has been called runs on, each
\* embedded-hal call returning Ok or Err, until it returns.
Run ==
    \/ PinOk \/ PinErr \/ SpiTransferOk \/ SpiWriteOk \/ SpiErr
    \/ LetStep \/ ErrIfWrongId \/ ErrIfWriteInProgress
    \/ SetWriteProtectionEnabled \/ SetWriteProtectionLevel
    \/ TransferProtection \/ TransferStatus
    \/ WhileBytes \/ Advance \/ WhileBusy \/ AgainIfBusy
    \/ PanicStep \/ ReturnStep

\* The storage layer alone, on the smallest and the largest device of each
\* chip: new and Storage::write, with buffers of no byte, one byte, MaxLen
\* bytes and a page and MaxLen bytes, at the start of the array, 6 bytes
\* before a page boundary and MaxLen bytes before the end.
WriteBuilds ==
    { b \in Builds :
        /\ b.crate = "eeprom25x"
        /\ <<b.CAPACITY, b.PAGE_SIZE>> \in { <<1024 * 8, 16>>, <<1024 * 1024, 256>> } }

WriteInit ==
    /\ build \in WriteBuilds
    /\ device_id \in { <<a, b>> : a \in IF build.chip = "25lc1024" THEN IdBytes ELSE {0},
                                  b \in IdBytes }
    /\ cs = "unset" /\ hold = "unset" /\ wp = "unset"
    /\ handle = FALSE
    /\ call = NoCall
    /\ todo = <<>>
    /\ l_offset = 0 /\ l_bytes = <<>> /\ l_buf = <<>> /\ l_id = 0 /\ l_status = 0
    /\ l_protection = 0
    /\ log = <<>>
    /\ result = "none"

Call_Storage_write_some ==
    /\ handle
    /\ \E offset \in {0, build.PAGE_SIZE - 6, capacity - MaxLen},
          n \in {0, 1, MaxLen, build.PAGE_SIZE + MaxLen} :
          Start("Storage.write", offset, Buf(n), 0, Storage_write(offset, Buf(n)))

WriteNext ==
    \/ Call_new
    \/ Call_Storage_write_some
    \/ PinOk
    \/ PinErr
    \/ SpiTransferOk
    \/ SpiWriteOk
    \/ SpiErr
    \/ LetStep
    \/ ErrIfWrongId
    \/ WhileBytes
    \/ Advance
    \/ WhileBusy
    \/ AgainIfBusy
    \/ ReturnStep
    \/ Resume

WriteSpec == WriteInit /\ [][WriteNext]_vars /\ WF_vars(Run)

----------------------------------------------------------------------------
\* The address-qualified write bursts of the log.  A burst is the payload
\* spi.write that follows the 4-byte header of write(), inside one
\* chip-select window.

IsHeader(l, i) ==
    /\ i > 1 /\ i < Len(l)
    /\ l[i - 1].dev = "cs" /\ l[i - 1].fn = "set_low"
    /\ l[i].dev = "spi" /\ l[i].fn = "write" /\ Len(l[i].tx) = 4 /\ l[i].tx[1] = Write
    /\ l[i + 1].dev = "spi" /\ l[i + 1].fn = "write"

HeaderAddress(tx) == tx[2] * 65536 + tx[3] * 256 + tx[4]

RECURSIVE BurstsFrom(_, _)
BurstsFrom(l, i) ==
    IF i > Len(l) THEN <<>>
    ELSE IF IsHeader(l, i)
    THEN << [address |-> HeaderAddress(l[i].tx), data |-> l[i + 1].tx] >>
         \o BurstsFrom(l, i + 1)
    ELSE BurstsFrom(l, i + 1)

Bursts == BurstsFrom(log, 1)

RECURSIVE Concat(_)
Concat(bs) == IF bs = <<>> THEN <<>> ELSE bs[1].data \o Concat(Tail(bs))

InRange == call.offset + Len(call.bytes) <= capacity

WriteDone == call.name = "Storage.write" /\ Idle /\ result = "Ok"

\* C1: in a Storage write that is within the capacity, no burst crosses a
\* page boundary: a burst of n >= 1 bytes at address a has
\* floor(a / P) = floor((a + n - 1) / P), for every page size P.
C1_NoBurstCrossesPage ==
    (call.name = "Storage.write" /\ InRange) =>
        LET bursts == Bursts
        IN \A k \in 1..Len(bursts) :
              LET a == bursts[k].address
                  n == Len(bursts[k].data)
              IN n >= 1 /\ (a \div build.PAGE_SIZE) = ((a + n - 1) \div build.PAGE_SIZE)

\* a write that starts 6 bytes before a page boundary and sent two bursts
C1_Witness ==
    /\ call.name = "Storage.write" /\ InRange
    /\ call.offset % build.PAGE_SIZE # 0
    /\ Len(Bursts) >= 2

\* C2: the bursts of a successful Storage write cover the buffer once and in
\* order: the first is at offset, each later one starts where the one before
\* ended, the payloads put together are the buffer, and the lengths add up to
\* its length; an empty buffer gives no burst.
C2_BurstsCoverBuffer ==
    WriteDone =>
        /\ Concat(Bursts) = call.bytes
        /\ \A k \in 1..Len(Bursts) :
              Bursts[k].address =
                 IF k = 1 THEN call.offset
                 ELSE Bursts[k - 1].address + Len(Bursts[k - 1].data)
        /\ (call.bytes = <<>> => Bursts = <<>>)

\* a successful write of three bursts
C2_Witness == WriteDone /\ Len(Bursts) = 3 /\ Len(call.bytes) > build.PAGE_SIZE

\* C3: a successful Storage write of L > 0 bytes sends one burst per page
\* touched, floor((offset + L - 1) / P) - floor(offset / P) + 1; the first has
\* min(L, P - offset mod P) bytes, every later one starts on a page boundary
\* and every one but the last ends on a page boundary.
C3_OneBurstPerPage ==
    (WriteDone /\ call.bytes # <<>>) =>
        LET P == build.PAGE_SIZE
            L == Len(call.bytes)
            n == Len(Bursts)
        IN /\ n = ((call.offset + L - 1) \div P) - (call.offset \div P) + 1
           /\ Len(Bursts[1].data) = min(L, P - (call.offset % P))
           /\ \A k \in 2..n : Bursts[k].address % P = 0
           /\ \A k \in 1..(n - 1) : (Bursts[k].address + Len(Bursts[k].data)) % P = 0

\* the example: P = 16, offset = 10, L = 20 gives bursts of 6 and 14 bytes at 10 and 16
C3_Witness ==
    /\ WriteDone /\ build.PAGE_SIZE = 16 /\ call.offset = 10 /\ Len(call.bytes) = 20
    /\ Len(Bursts) = 2
    /\ Bursts[1].address = 10 /\ Len(Bursts[1].data) = 6
    /\ Bursts[2].address = 16 /\ Len(Bursts[2].data) = 14

\* C4: a Storage write with offset + len > capacity returns TooMuchData and
\* calls no pin and no SPI function (hold, chip-select and write-protect stay
\* as they were); a write with offset + len = capacity is not refused.
C4_TooMuchDataBeforeAnyCall ==
    call.name = "Storage.write" =>
        /\ ~InRange =>
              /\ log = <<>>
              /\ <<cs, hold, wp>> = call.pins
              /\ (Idle => result = "TooMuchData")
        /\ InRange => result # "TooMuchData"

\* a write of two bytes at the last address was refused
C4_Witness ==
    /\ call.name = "Storage.write" /\ Idle /\ result = "TooMuchData"
    /\ call.offset = capacity - 1 /\ Len(call.bytes) = 2

----------------------------------------------------------------------------
OutOfRange == call.offset + Len(call.bytes) > capacity

\* C5: a Storage read with offset + len > capacity returns the out-of-range
\* error and calls no pin and no SPI function.
C5_ReadOutOfRangeRefused ==
    (call.name = "Storage.read" /\ OutOfRange) =>
        /\ log = <<>>
        /\ <<cs, hold, wp>> = call.pins
        /\ (Idle => result = "TooMuchData")

\* C6: when a pin or SPI call fails during a Storage write, the write returns
\* that error and makes no call after it: the failed call is the last of the
\* log, whichever chunk or status poll it belongs to.
C6_WriteStopsAtFirstError ==
    call.name = "Storage.write" =>
        \A i \in 1..Len(log) :
            ~log[i].ok =>
                /\ i = Len(log)
                /\ Idle
                /\ result = IF log[i].dev = "spi" THEN "SpiError" ELSE "PinError"

\* the status poll after the second burst failed
C6_Witness ==
    /\ call.name = "Storage.write" /\ Len(Bursts) = 2
    /\ log # <<>> /\ ~log[Len(log)].ok
    /\ log[Len(log)].fn = "transfer" /\ log[Len(log)].tx = <<ReadStatus, 0>>
    /\ result = "SpiError"

StatusTransaction(busy) ==
    /\ Len(log) >= 2
    /\ log[1] = Entry("cs", "set_low", TRUE, <<>>, <<>>)
    /\ log[2].dev = "spi" /\ log[2].fn = "transfer" /\ log[2].ok
    /\ log[2].tx = <<ReadStatus, 0>>
    /\ get_bit(log[2].rx[2], 0) = busy

AllOk == \A i \in 1..Len(log) : log[i].ok

\* C7: erase whose status read shows the busy bit returns BusyWriting and
\* sends neither WriteEnable nor the erase command: the status read is the
\* only transaction.
C7_EraseWhileBusy ==
    call.name = "erase" =>
        /\ StatusTransaction(TRUE) =>
              /\ Len(log) <= 3
              /\ (Idle /\ AllOk) => result = "BusyWriting"
        /\ result = "BusyWriting" =>
              /\ StatusTransaction(TRUE)
              /\ Len(log) = 3 /\ log[3] = Entry("cs", "set_high", TRUE, <<>>, <<>>)

C7_Witness == call.name = "erase" /\ Idle /\ result = "BusyWriting"

\* C8: erase of any granularity at an address below 2^24, on a device that is
\* not busy, completes and sends, after WriteEnable, the 4-byte frame of the
\* granularity's opcode and the big-endian 24-bit address.
C8_EraseSendsOpcodeAndAddress ==
    (call.name = "erase" /\ Idle /\ AllOk /\ StatusTransaction(FALSE)
        /\ call.offset < Pow2(24)) =>
        /\ result = "Ok"
        /\ Len(log) = 9
        /\ log[5].fn = "transfer" /\ log[5].tx = <<WriteEnable>>
        /\ log[8].fn = "transfer"
        /\ log[8].tx = << call.kind, call.offset \div 65536,
                          (call.offset \div 256) % 256, call.offset % 256 >>

IsIdentityTransfer(e) ==
    e.dev = "spi" /\ e.fn = "transfer" /\ e.ok /\ e.tx[1] = ReleasePowerDown

\* new has read its identity byte into id
IdentityRead(i) ==
    /\ i < Len(log) /\ IsIdentityTransfer(log[i]) /\ log[i + 1].ok
    /\ ~(todo # <<>> /\ todo[1].k = "let")

\* C9: new that reads an identity byte other than 0x29 returns WrongId, makes
\* no transaction after the identity transaction, and gives no driver.
C9_WrongIdStopsNew ==
    call.name = "new" =>
        \A i \in 1..Len(log) :
            (IdentityRead(i) /\ l_id # ManufacturerId) =>
                /\ Len(log) = i + 1
                /\ ~handle
                /\ (Idle => result = "WrongId")

C9_Witness ==
    /\ call.name = "new" /\ Idle /\ result = "WrongId"
    /\ \E i \in 1..Len(log) : IdentityRead(i)

\* the WriteEnable and WriteStatus frames of the log, in order
RECURSIVE ProtectFrames(_)
ProtectFrames(l) ==
    IF l = <<>> THEN <<>>
    ELSE IF l[1].dev = "spi" /\ l[1].fn = "transfer" /\ l[1].tx[1] \in {WriteEnable, WriteStatus}
    THEN << l[1].tx >> \o ProtectFrames(Tail(l))
    ELSE ProtectFrames(Tail(l))

\* C10: a successful new sends, after the identity check, WriteEnable, a
\* WriteStatus with WPEN (bit 7) cleared, WriteEnable and a WriteStatus with
\* WPEN set, so the last status byte written has WPEN set.
C10_InitProtectsStatus ==
    (call.name = "new" /\ Idle /\ result = "Ok") =>
        LET f == ProtectFrames(log)
        IN /\ Len(f) = 4
           /\ f[1] = <<WriteEnable>>
           /\ f[2][1] = WriteStatus /\ ~get_bit(f[2][2], 7)
           /\ f[3] = <<WriteEnable>>
           /\ f[4][1] = WriteStatus /\ get_bit(f[4][2], 7)

----------------------------------------------------------------------------
\* the calls that drove the hold pin before the first SPI call of the log
HoldBeforeIdentity ==
    { i \in 1..Len(log) :
        /\ log[i].dev = "hold" /\ log[i].ok
        /\ \A j \in 1..i : log[j].dev # "spi" }

\* C11: after a successful new the hold pin is at the level new drove it to
\* in its first steps, before the identity transaction.
C11_HoldAfterNewAsAtStart ==
    (call.name = "new" /\ Idle /\ result = "Ok") =>
        \A i \in HoldBeforeIdentity : hold = Level(IF log[i].fn = "set_high" THEN 1 ELSE 0)

----------------------------------------------------------------------------
\* set_array_write_protection has read the status byte and applied
\* set_write_protection_level to it
LevelSet ==
    /\ call.name = "set_array_write_protection"
    /\ Len(log) >= 3 /\ log[1].ok /\ log[2].ok /\ log[3].ok
    /\ ~(todo # <<>> /\ todo[1].k = "let")
    /\ ~(todo # <<>> /\ todo[1] = Ctl("set_write_protection_level", call.kind))

\* C12: set_write_protection_level(v) on a register holding any status byte
\* completes, and write_protection_level() then returns v, for v in None,
\* Quarter, Half, All.
C12_ProtectionLevelRoundTrip ==
    LevelSet =>
        /\ result # "panic"
        /\ ~(todo # <<>> /\ todo[1] = Ctl("panic", 0))
        /\ write_protection_level(l_protection) = call.kind

----------------------------------------------------------------------------
\* the 4-byte header of read() or write() has been sent
HeaderSent ==
    /\ call.name \in {"read", "write"}
    /\ Len(log) >= 2 /\ log[2].dev = "spi" /\ log[2].fn = "write" /\ log[2].ok

\* C13: for an address a below 2^24 the read and the write command words
\* have a in their low 24 bits and the opcode (3, 2) as their top byte, so
\* they differ in the top byte only; the header sent is the big-endian word.
C13_AddressCommandWords ==
    (call.name \in {"read", "write"} /\ call.offset < Pow2(24)) =>
        LET a == call.offset
            r == e25x_read_from_address_command(a)
            w == e25x_write_from_address_command(a)
        IN /\ r % Pow2(24) = a /\ r \div Pow2(24) = 3
           /\ w % Pow2(24) = a /\ w \div Pow2(24) = 2
           /\ HeaderSent =>
                 log[2].tx = << IF call.name = "read" THEN 3 ELSE 2,
                                a \div 65536, (a \div 256) % 256, a % 256 >>

\* read at the highest 24-bit address has sent its header
C13_Witness == HeaderSent /\ call.name = "read" /\ call.offset = Pow2(24) - 1

----------------------------------------------------------------------------
\* C14: the identity transaction returns the byte received in the last place
\* of its frame (the 4th of 4 bytes, the 5th of 5 bytes), and this is the
\* byte new compares with the manufacturer code.
C14_IdentityIsLastByte ==
    call.name = "new" =>
        \A i \in 1..Len(log) :
            IdentityRead(i) =>
                /\ Len(log[i].rx) = (IF build.chip = "25lc1024" THEN 5 ELSE 4)
                /\ l_id = log[i].rx[Len(log[i].rx)]
                /\ (Idle /\ AllOk) =>
                      (result = "WrongId") = (log[i].rx[Len(log[i].rx)] # 41)

----------------------------------------------------------------------------
\* The call log[i] is made after hold_transfer(true) and before the next
\* hold_transfer(false).  new drives the pin itself before its transaction
\* and calls hold_transfer(false) only; every operation that returns Ok has
\* called hold_transfer(false) last, if it called hold_transfer at all.
HeldAt(i) ==
    /\ call.name # "new"
    /\ \E j \in 1..(i - 1) :
          /\ log[j].dev = "hold" /\ log[j].fn = "set_high" /\ log[j].ok
          /\ \A k \in (j + 1)..(i - 1) : log[k].dev # "hold"

\* C15: no SPI call is made while the driver is held, that is between
\* hold_transfer(true) and the following hold_transfer(false).
C15_NoSpiWhileHeld ==
    \A i \in 1..Len(log) : log[i].dev = "spi" => ~HeldAt(i)

----------------------------------------------------------------------------
\* The instruction frames of the log: the SPI call that follows cs.set_low
\* starts a frame, and its first byte is the instruction.
FrameAt(i) ==
    /\ i > 1 /\ i <= Len(log)
    /\ log[i].dev = "spi"
    /\ log[i - 1].dev = "cs" /\ log[i - 1].fn = "set_low"

Opcode(i) == log[i].tx[1]

Frames == { i \in 1..Len(log) : FrameAt(i) }

\* the frame log[i] is sent after a wake and with no DeepSleep since the
\* operation began
ActiveAt(i) ==
    /\ \E j \in 2..(i - 1) : FrameAt(j) /\ Opcode(j) = ReleasePowerDown /\ log[j].ok
    /\ \A j \in 2..(i - 1) : FrameAt(j) => Opcode(j) # DeepSleepPowerMode

\* the last frame of the log is a DeepSleep that was sent
EndsAsleep ==
    \E i \in 2..Len(log) :
        /\ FrameAt(i) /\ Opcode(i) = DeepSleepPowerMode /\ log[i].ok
        /\ \A j \in (i + 1)..Len(log) : ~FrameAt(j)

\* C16: on a sleep-capable build every Storage read and write sends
\* ReleasePowerDown before its first data transaction and DeepSleep after its
\* last: the device is awake at every Read, Write, WriteEnable, ReadStatus
\* and WriteDisable frame, asleep when a successful new, read or write has
\* returned, and a read sends one Read frame for the whole buffer.
C16_SleepWrapsStorage ==
    sleep_capable =>
        /\ call.name \in {"Storage.read", "Storage.write"} =>
              /\ \A i \in 2..Len(log) :
                    (FrameAt(i) /\ Opcode(i) \in {Read, Write, WriteEnable, ReadStatus,
                                                  WriteDisable})
                       => ActiveAt(i)
              /\ (Idle /\ result = "Ok") => EndsAsleep
        /\ (call.name = "new" /\ Idle /\ result = "Ok") => EndsAsleep
        /\ (call.name = "Storage.read" /\ Idle /\ result = "Ok") =>
              \E i \in Frames :
                  /\ Opcode(i) = Read
                  /\ log[i + 1].dev = "spi" /\ log[i + 1].fn = "transfer"
                  /\ Len(log[i + 1].tx) = Len(call.bytes)
                  /\ \A j \in Frames : Opcode(j) = Read => j = i

\* a read of MaxLen bytes on a sleep-capable build has returned
C16_Witness ==
    /\ sleep_capable /\ call.name = "Storage.read" /\ Idle /\ result = "Ok"
    /\ Len(call.bytes) = MaxLen /\ EndsAsleep

----------------------------------------------------------------------------
\* The order of the frames of one chunk of Storage::write, as an acceptor:
\* "idle" (a WriteEnable may follow), "enabled" (the Write burst follows),
\* "written" and "busy" (a status read follows), "clear" (WriteDisable
\* follows).  The wake and sleep frames are outside the chunks.
ChunkOrder(at, i) ==
    LET op == Opcode(i)
    IN IF op \in {ReleasePowerDown, DeepSleepPowerMode} /\ at = "idle" THEN "idle"
       ELSE IF op = WriteEnable /\ at = "idle" THEN "enabled"
       ELSE IF op = Write /\ at = "enabled" THEN "written"
       ELSE IF op = ReadStatus /\ at \in {"written", "busy"}
       THEN IF ~log[i].ok THEN "busy"
            ELSE IF get_bit(log[i].rx[2], 0) THEN "busy" ELSE "clear"
       ELSE IF op = WriteDisable /\ at = "clear" THEN "idle"
       ELSE "bad"

\* the state of the acceptor after the frames of log[1..n]
RECURSIVE ChunkOrderAfter(_)
ChunkOrderAfter(n) ==
    IF n = 0 THEN "idle"
    ELSE IF FrameAt(n) THEN ChunkOrder(ChunkOrderAfter(n - 1), n)
    ELSE ChunkOrderAfter(n - 1)

FramesOf(op) == { i \in Frames : Opcode(i) = op }

\* C17: in Storage write every chunk is WriteEnable, one Write burst, status
\* reads until one shows the busy bit clear, WriteDisable, in this order: a
\* WriteEnable after the first follows a status read that showed busy clear,
\* and a write that returns Ok has sent one WriteEnable and one WriteDisable
\* per burst.
C17_ChunkOrder ==
    call.name = "Storage.write" =>
        /\ ChunkOrderAfter(Len(log)) # "bad"
        /\ WriteDone =>
              /\ ChunkOrderAfter(Len(log)) = "idle"
              /\ Cardinality(FramesOf(WriteEnable)) = Len(Bursts)
              /\ Cardinality(FramesOf(WriteDisable)) = Len(Bursts)
              /\ Cardinality(FramesOf(Write)) = Len(Bursts)

\* a write of two bursts has returned, and the device was busy at a poll
C17_Witness ==
    /\ WriteDone /\ Len(Bursts) = 2
    /\ \E i \in FramesOf(ReadStatus) : get_bit(log[i].rx[2], 0)

----------------------------------------------------------------------------
\* the chip-select calls of the log
IsCs(i, fn) == log[i].dev = "cs" /\ log[i].fn = fn

\* log[i] is made inside the chip-select window opened at log[j]
InWindow(j, i) ==
    /\ j < i /\ IsCs(j, "set_low") /\ log[j].ok
    /\ \A k \in (j + 1)..(i - 1) : log[k].dev # "cs"

\* the SPI calls of one instruction frame: a transfer, or the 4-byte header
\* of read() or write() and the payload after it
OneFrame(j, i) ==
    \/ i = j + 1
    \/ /\ i = j + 2
       /\ log[j + 1].dev = "spi" /\ log[j + 1].fn = "write"
       /\ Len(log[j + 1].tx) = 4 /\ log[j + 1].tx[1] \in {Read, Write}

\* the window of the frame log[i] is over: the operation went on or returned
FrameOver(i) ==
    LET last == IF log[i].fn = "write" /\ i < Len(log) /\ log[i + 1].dev = "spi"
                THEN i + 1 ELSE i
    IN last < Len(log) \/ (Idle /\ ~(log[i].fn = "write" /\ last = i /\ log[i].ok))

\* the chip-select call that follows the frame log[i] is set_high
Deasserted(i) ==
    \E k \in (i + 1)..Len(log) :
        /\ IsCs(k, "set_high")
        /\ \A m \in (i + 1)..(k - 1) : log[m].dev = "spi"

\* C18: chip-select is not held across the busy-wait: every status poll of
\* Storage write is a window of its own (set_low, a 2-byte transfer,
\* set_high); every SPI call is made inside a window, a window holds one
\* instruction frame, and chip-select is deasserted after every frame, so
\* between any two polls and any two transactions.
C18_ChipSelectWindows ==
    /\ \A i \in 1..Len(log) :
          log[i].dev = "spi" =>
              \E j \in 1..(i - 1) : InWindow(j, i) /\ OneFrame(j, i)
    /\ \A i \in Frames : FrameOver(i) => Deasserted(i)
    /\ call.name = "Storage.write" =>
          \A i \in FramesOf(ReadStatus) :
              /\ log[i].fn = "transfer" /\ Len(log[i].tx) = 2
              /\ FrameOver(i) => IsCs(i + 1, "set_high")

----------------------------------------------------------------------------
\* the level of the write-protect pin when log[i] is called
WpAt(i) ==
    LET before == { j \in 1..(i - 1) : log[j].dev = "wp" /\ log[j].ok }
    IN IF before = {} THEN call.pins[3]
       ELSE LET j == CHOOSE j \in before : \A k \in before : k <= j
            IN IF log[j].fn = "set_high" THEN "high" ELSE "low"

\* the write latch is set when log[i] is sent: a WriteEnable went before,
\* and no WriteStatus, WriteDisable, Write or erase frame since
LatchSetAt(i) ==
    \E j \in FramesOf(WriteEnable) :
        /\ j < i /\ log[j].ok
        /\ \A k \in Frames :
              (j < k /\ k < i) =>
                  Opcode(k) \notin {WriteStatus, WriteDisable, Write} \cup Erase

\* C19: every WriteStatus frame of new and of set_array_write_protection
\* (with the enable_write_to_status and disable_write_to_status they call)
\* is sent with the write-protect pin high and the write latch set.
C19_WriteStatusEnabled ==
    call.name \in {"new", "set_array_write_protection"} =>
        \A i \in FramesOf(WriteStatus) :
            WpAt(i) = "high" /\ LatchSetAt(i)

----------------------------------------------------------------------------
\* the bytes that differ from b in one field of the status register: the
\* WPEN bit 7, or the protection level in bits 2 and 3
OneFieldChanged(b) ==
    {b} \cup { set_bit(b, 7, e) : e \in BOOLEAN }
        \cup { (b \div 16) * 16 + v * 4 + (b % 4) : v \in 0..3 }

\* the ReadStatus frames answered since the WriteStatus before log[i]
FreshReads(i) ==
    { j \in FramesOf(ReadStatus) :
        /\ j < i /\ log[j].ok
        /\ \A k \in FramesOf(WriteStatus) : ~(j < k /\ k < i) }

\* C20: the byte of every WriteStatus frame is the value of a ReadStatus
\* sent after the previous WriteStatus, with one field changed: no status
\* value read before an earlier status write is written back.
C20_StatusNotCached ==
    call.name \in {"new", "set_array_write_protection"} =>
        \A i \in FramesOf(WriteStatus) :
            \E j \in FreshReads(i) : log[i].tx[2] \in OneFieldChanged(log[j].rx[2])

----------------------------------------------------------------------------
\* the operation has returned, with Ok or with an error
Returned == call.name # "none" /\ Idle /\ result # "none"

\* the call that failed is a chip-select call: the pin could not be driven
CsCallFailed == log # <<>> /\ log[Len(log)].dev = "cs" /\ ~log[Len(log)].ok

\* C22: chip-select is high whenever an operation of the driver or of the
\* storage layer returns, with Ok or with a pin or SPI error (leaving aside
\* the return caused by a chip-select call that itself failed): no operation
\* returns with a chip-select window open.
C22_ChipSelectHighOnReturn ==
    (Returned /\ ~CsCallFailed) => cs = "high"

----------------------------------------------------------------------------
\* a Storage write of a buffer within the capacity is running
Writing == call.name = "Storage.write" /\ InRange /\ ~Idle

\* the loop test of Storage::write is the next step
AtLoopTest == Writing /\ Step = Ctl("while_bytes", 0)

\* the status read log[i] was answered with the busy bit set
BusyAnswer(i) == log[i].ok /\ get_bit(log[i].rx[2], 0)

\* every iteration of the loop takes at least one byte off the buffer: at
\* the loop test the bytes left and the iterations made are no more than
\* the buffer
LoopDecreases ==
    AtLoopTest => Len(l_bytes) + Len(Bursts) <= Len(call.bytes)

\* log[j] is the first frame after log[i]
NextFrame(i, j) ==
    /\ i < j /\ FrameAt(j)
    /\ \A k \in (i + 1)..(j - 1) : ~FrameAt(k)

\* the frame after a busy answer is the next status read, and the write
\* does not return Ok with a busy answer as its last frame
PollsWhileBusy ==
    call.name = "Storage.write" =>
        \A i \in 2..Len(log) :
            (FrameAt(i) /\ Opcode(i) = ReadStatus /\ BusyAnswer(i)) =>
                /\ (Idle /\ result = "Ok") => \E j \in (i + 1)..Len(log) : NextFrame(i, j)
                /\ \A j \in (i + 1)..Len(log) :
                      NextFrame(i, j) => Opcode(j) = ReadStatus

\* C21: a Storage write of an in-range buffer returns, and returns Ok when
\* no pin or SPI call failed, given that the device answers busy clear after
\* finitely many polls; the bytes left never grow and go down by at least
\* one in every iteration of the loop; the busy-wait has no limit of its own
\* and is not left while the device answers busy.
C21_WriteTerminates ==
    /\ Writing ~> (Idle /\ (AllOk => result = "Ok"))
    /\ [][(Writing /\ l_bytes' # l_bytes /\ call' = call)
            => Len(l_bytes') < Len(l_bytes)]_vars
    /\ [][LoopDecreases' /\ PollsWhileBusy']_vars

\* a write of three bursts has returned Ok after the device answered busy
\* MaxPolls times in one busy-wait
C21_Witness ==
    /\ WriteDone /\ Len(Bursts) = 3
    /\ \E i \in FramesOf(ReadStatus) :
          BusyAnswer(i) /\ BusyRun(SubSeq(log, 1, i)) = MaxPolls

====
